---- MODULE Spec2Model ----
(***************************************************************************)
(* State machine of the Playlist component (playlist.rs) and of the        *)
(* Podcasts scroll-edge trigger (podcasts.rs).                             *)
(*                                                                         *)
(* The Playlist owns a ListStore<SongModel> (list_model) that a            *)
(* gtk::ListBox is bound to: the list box holds one ListBoxRow per store   *)
(* element, created by the bind_model closure whenever the store's         *)
(* contents are replaced.  The PlaylistModel trait object is the external  *)
(* collaborator: songs(), current_song_id() and selection() are read from  *)
(* it, play_song / select_song / deselect_song are sent to it.             *)
(***************************************************************************)
EXTENDS Integers, Sequences, FiniteSets, TLC

\* Bounds of the model.
MaxLen == 2         \* songs() returns at most MaxLen songs
MaxSignals == 4     \* edge-reached signals delivered to the Podcasts trigger

\* Song identifiers.  The component only ever compares two identifiers for
\* equality, so two distinct ones give every outcome of a comparison.
Ids == {"a", "b"}

\* Every value songs() can return: sequences of identifiers (repeats allowed).
SongSeqs == UNION {[1..n -> Ids] : n \in 0..MaxLen}

VARIABLES
    \* ---- PlaylistModel (external collaborator) ----
    songs,              \* model.songs(), as the sequence of the songs' ids
    current_song_id,    \* model.current_song_id(): {} is None, {id} is Some(id)
    has_selection,      \* model.selection() is Some(..) (the default method gives None)
    selection_enabled,  \* SelectionState::is_selection_enabled()
    selected_songs,     \* SelectionState: the ids for which is_song_selected() holds
    \* ---- Playlist ----
    list_model,         \* the ListStore: sequence of [id, playing]
    rows,               \* the list box's rows, rows[i] shows list_model[i]: [selectable, selected]
    selection_mode,     \* the list box's gtk::SelectionMode: "Multiple" or "None"
    model_alive,        \* the Rc<Model> still has an owner (the weak references upgrade)
    panicked,           \* a handler panicked (ListStore::get out of bounds)
    \* ---- observation of the last step ----
    last_op,            \* [kind, index, refresh]: the operation that ran last
    calls,              \* the model commands the last operation issued, in order
    \* ---- Podcasts ----
    podcasts_alive,     \* the Rc<PodcastsModel> still has an owner
    load_calls,         \* number of load_more_playlists() calls made so far
    bottom_signals,     \* number of Bottom edge signals delivered while the model was alive
    edge_signals,       \* number of edge signals delivered so far
    last_edge,          \* the gtk::PositionType of the last signal ("none" before the first)
    last_result,        \* what the last load_more_playlists() call returned ("none": no call)
    load_errors,        \* number of load_more_playlists() calls that returned Err
    trigger_error,      \* an error escaped the edge-reached handler
    open_calls,         \* number of open_playlist() calls made so far
    last_press          \* how the last album press ended ("none" before the first)

playlist_vars == <<songs, current_song_id, has_selection, selection_enabled, selected_songs,
                   list_model, rows, selection_mode, model_alive, panicked, last_op, calls>>
podcasts_vars == <<podcasts_alive, load_calls, bottom_signals, edge_signals, last_edge,
                   last_result, load_errors, trigger_error, open_calls, last_press>>
vars == <<playlist_vars, podcasts_vars>>

(***************************************************************************)
(* gtk::ListBoxRow / gtk::ListBox operations the component calls.          *)
(***************************************************************************)

\* gtk::ListBoxRow::new(): a fresh row is selectable and not selected.
new_row == [selectable |-> TRUE, selected |-> FALSE]

\* row.set_selectable(b): making a row non-selectable also unselects it.
set_selectable(row, b) ==
    IF row.selectable = b THEN row
    ELSE [selectable |-> b, selected |-> IF b THEN row.selected ELSE FALSE]

\* listbox.select_row(Some(row)): nothing happens for a non-selectable row, an
\* already selected row, or a list box whose selection mode is None; in
\* Multiple mode the other rows keep their selection.
select_row(mode, row) ==
    IF ~row.selectable \/ row.selected \/ mode = "None" THEN row
    ELSE [row EXCEPT !.selected = TRUE]

\* listbox.unselect_row(row)
unselect_row(mode, row) ==
    IF ~row.selected \/ mode = "None" THEN row
    ELSE [row EXCEPT !.selected = FALSE]

\* listbox.set_selection_mode(new): switching to None unselects every row.
set_selection_mode(mode, rs, new) ==
    IF mode = new THEN rs
    ELSE IF new = "None" \/ mode = "Multiple"
         THEN [i \in 1..Len(rs) |-> [rs[i] EXCEPT !.selected = FALSE]]
         ELSE rs

(***************************************************************************)
(* PlaylistModel and SelectionState, as the component reads them.          *)
(***************************************************************************)

\* model.selection().map(|s| s.is_selection_enabled()).unwrap_or(false)
is_selection_enabled == has_selection /\ selection_enabled

\* Variant: a missing selection state counts every song as selected.
is_song_selected_or_true(id) == IF has_selection THEN id \in selected_songs ELSE TRUE

\* model.selection().map(|s| s.is_song_selected(id)).unwrap_or(false)
is_song_selected(id) == has_selection /\ id \in selected_songs

\* current_song_id.map(|s| s.eq(id)).unwrap_or(false)
is_current(id) == id \in current_song_id

\* What songs() returns: one SongModel per id.
songs_items == [i \in 1..Len(songs) |-> [id |-> songs[i], playing |-> FALSE]]

\* select_song(id) / deselect_song(id) as the selection state takes them.
select_song(sel, id) == IF has_selection THEN sel \cup {id} ELSE sel
deselect_song(sel, id) == IF has_selection THEN sel \ {id} ELSE sel

\* The mode flag of the model's selection state once that state has emitted
\* SelectionModeChanged(active); a model without selection() has no such state.
set_mode(enabled, active) == IF has_selection THEN active ELSE enabled

\* ListStore::replace_all(items)
replace_all(items) == items

(***************************************************************************)
(* Playlist                                                                *)
(***************************************************************************)

\* set_row_state: the item's playing flag ...
set_row_state_item(item) == [item EXCEPT !.playing = is_current(item.id)]

\* Variant: the selected branch marks the row selectable and never selects it.
set_row_state_row_unselected(mode, item, row) ==
    IF is_song_selected(item.id)
    THEN set_selectable(row, TRUE)
    ELSE set_selectable(row, FALSE)

\* ... and the row's selection, against the list box's mode.
set_row_state_row(mode, item, row) ==
    IF is_song_selected(item.id)
    THEN select_row(mode, set_selectable(row, TRUE))
    ELSE set_selectable(row, FALSE)

\* The bind_model closure, run by the list box for every item of the store.
bind_item(item) == IF model_alive THEN set_row_state_item(item) ELSE item
bind_row(mode, item) ==
    IF model_alive THEN set_row_state_row(mode, item, new_row) ELSE new_row

\* Variant: the refresh rebuilds the store from songs() instead of updating
\* the elements it holds.
update_list_store_rebuilds(store) ==
    [i \in 1..Len(songs) |-> [id |-> songs[i], playing |-> is_current(songs[i])]]

\* Variant: the refresh flips the flag of the current song instead of setting it.
update_list_store_toggles(store) ==
    [i \in 1..Len(store) |->
        IF i <= Len(songs)
        THEN [store[i] EXCEPT !.playing = (is_current(songs[i]) /\ ~store[i].playing)]
        ELSE store[i]]

\* update_list: walks model.songs() by index, compares the current id with
\* the id of songs()[i] and sets the flag of the store element at index i.
update_list_store(store) ==
    [i \in 1..Len(store) |->
        IF i <= Len(songs)
        THEN [store[i] EXCEPT !.playing = is_current(songs[i])]
        ELSE store[i]]

\* list_model.get(i) on an index the store does not hold panics.
update_list_panics(store) == Len(songs) > Len(store)

\* Variant: the reset appends songs() to the store instead of replacing it.
reset_list_store_appends ==
    list_model \o [i \in 1..Len(songs_items) |-> bind_item(songs_items[i])]

\* reset_list: the store is replaced by songs(); the list box drops every
\* row and binds a new one for each item.
reset_list_store ==
    LET items == replace_all(songs_items)
    IN  [i \in 1..Len(items) |-> bind_item(items[i])]

reset_list_rows(mode) ==
    LET items == replace_all(songs_items)
    IN  [i \in 1..Len(items) |-> bind_row(mode, items[i])]

\* Variant: disabling unselects the rows and leaves them selectable.
set_selection_active_rows_keeps_selectable(mode, rs, active) ==
    IF active
    THEN set_selection_mode(mode, rs, "Multiple")
    ELSE set_selection_mode(mode,
            [i \in 1..Len(rs) |-> unselect_row(mode, rs[i])],
            "None")

\* set_selection_active, on the rows ...
set_selection_active_rows(mode, rs, active) ==
    IF active
    THEN set_selection_mode(mode, rs, "Multiple")
    ELSE set_selection_mode(mode,
            [i \in 1..Len(rs) |->
                IF rs[i].selected
                THEN set_selectable(unselect_row(mode, rs[i]), FALSE)
                ELSE rs[i]],
            "None")

\* Variant: disabling leaves the list box in Multiple mode.
set_selection_active_mode_stays_multiple(active) == "Multiple"

\* ... and on the list box's selection mode.
set_selection_active_mode(active) == IF active THEN "Multiple" ELSE "None"

\* Variant: the handler does not mark the row selectable before selecting it.
row_activated_row_unselectable(mode, row) ==
    IF is_selection_enabled
    THEN IF row.selected
         THEN set_selectable(unselect_row(mode, row), FALSE)
         ELSE select_row(mode, row)
    ELSE row

\* Variant: the handler marks the row selectable before it looks at the mode.
row_activated_row_hoisted(mode, row) ==
    LET r == set_selectable(row, TRUE)
    IN  IF is_selection_enabled
        THEN IF r.selected
             THEN set_selectable(unselect_row(mode, r), FALSE)
             ELSE select_row(mode, r)
        ELSE r

\* Variant: on a selected row the handler only clears the selectable mark and
\* the row keeps its selection.
row_activated_row_marks_only(mode, row) ==
    IF is_selection_enabled
    THEN LET r == set_selectable(row, TRUE)
         IN  IF r.selected
             THEN [r EXCEPT !.selectable = FALSE]
             ELSE select_row(mode, r)
    ELSE row

\* The row_activated handler's effect on the activated row.
row_activated_row(mode, row) ==
    IF is_selection_enabled
    THEN LET r == set_selectable(row, TRUE)
         IN  IF r.selected
             THEN set_selectable(unselect_row(mode, r), FALSE)
             ELSE select_row(mode, r)
    ELSE row

\* Variant: the handler takes the mode from the list box's selection mode
\* instead of asking the model's selection state.
row_activated_call_by_list_mode(row, id) ==
    IF selection_mode = "Multiple"
    THEN IF set_selectable(row, TRUE).selected
         THEN [op |-> "deselect_song", id |-> id]
         ELSE [op |-> "select_song", id |-> id]
    ELSE [op |-> "play_song", id |-> id]

\* The command the row_activated handler sends to the model.
row_activated_call(row, id) ==
    IF is_selection_enabled
    THEN IF set_selectable(row, TRUE).selected
         THEN [op |-> "deselect_song", id |-> id]
         ELSE [op |-> "select_song", id |-> id]
    ELSE [op |-> "play_song", id |-> id]

\* The selection state after that command.
row_activated_selection(call) ==
    IF call.op = "select_song" THEN select_song(selected_songs, call.id)
    ELSE IF call.op = "deselect_song" THEN deselect_song(selected_songs, call.id)
    ELSE selected_songs

(***************************************************************************)
(* Steps                                                                   *)
(***************************************************************************)

Ran(kind, index, refresh, issued) ==
    /\ last_op' = [kind |-> kind, index |-> index, refresh |-> refresh]
    /\ calls' = issued

\* on_event is a method of the component: it runs while the component, and so
\* its Rc<Model>, exists, and not once a handler has panicked.
Running == model_alive /\ ~panicked

\* Variant: the should_refresh_songs arm comes before the TrackChanged arm, so
\* a TrackChanged the model opts in resets the list.
TrackChanged_asks_model_first ==
    /\ Running
    /\ \E refresh \in BOOLEAN :
        IF refresh
        THEN /\ list_model' = reset_list_store
             /\ rows' = reset_list_rows(selection_mode)
             /\ UNCHANGED panicked
        ELSE /\ list_model' = update_list_store(list_model)
             /\ panicked' = update_list_panics(list_model)
             /\ UNCHANGED rows
    /\ Ran("TrackChanged", 0, FALSE, <<>>)
    /\ UNCHANGED <<songs, current_song_id, has_selection, selection_enabled,
                   selected_songs, selection_mode, model_alive>>
    /\ UNCHANGED podcasts_vars

\* on_event, AppEvent::PlaybackEvent(PlaybackEvent::TrackChanged(_)).
TrackChanged ==
    /\ Running
    /\ list_model' = update_list_store(list_model)
    /\ panicked' = update_list_panics(list_model)
    /\ Ran("TrackChanged", 0, FALSE, <<>>)
    /\ UNCHANGED <<songs, current_song_id, has_selection, selection_enabled,
                   selected_songs, rows, selection_mode, model_alive>>
    /\ UNCHANGED podcasts_vars

\* Variant: a PlaybackStopped that directly follows a TrackChanged is coalesced
\* with it and leaves the store to the refresh.
PlaybackStopped_coalesced ==
    /\ Running
    /\ IF last_op.kind = "TrackChanged"
       THEN UNCHANGED <<list_model, rows>>
       ELSE /\ list_model' = reset_list_store
            /\ rows' = reset_list_rows(selection_mode)
    /\ Ran("PlaybackStopped", 0, FALSE, <<>>)
    /\ UNCHANGED <<songs, current_song_id, has_selection, selection_enabled,
                   selected_songs, selection_mode, model_alive, panicked>>
    /\ UNCHANGED podcasts_vars

\* on_event, AppEvent::PlaybackEvent(PlaybackEvent::PlaybackStopped).
PlaybackStopped ==
    /\ Running
    /\ list_model' = reset_list_store
    /\ rows' = reset_list_rows(selection_mode)
    /\ Ran("PlaybackStopped", 0, FALSE, <<>>)
    /\ UNCHANGED <<songs, current_song_id, has_selection, selection_enabled,
                   selected_songs, selection_mode, model_alive, panicked>>
    /\ UNCHANGED podcasts_vars

\* on_event, AppEvent::SelectionEvent(SelectionEvent::SelectionModeChanged(active)).
\* The selection state emits the event when its mode flag has become `active`.
SelectionModeChanged(active) ==
    /\ Running
    /\ selection_enabled' = set_mode(selection_enabled, active)
    /\ rows' = set_selection_active_rows(selection_mode, rows, active)
    /\ selection_mode' = set_selection_active_mode(active)
    /\ Ran(IF active THEN "SelectionModeChanged(true)" ELSE "SelectionModeChanged(false)",
           0, FALSE, <<>>)
    /\ UNCHANGED <<songs, current_song_id, has_selection, selected_songs,
                   list_model, model_alive, panicked>>
    /\ UNCHANGED podcasts_vars

\* Variant: the fallback arm resets the list whatever should_refresh_songs says.
OtherEvent_always_resets(refresh) ==
    /\ Running
    /\ list_model' = reset_list_store
    /\ rows' = reset_list_rows(selection_mode)
    /\ Ran("OtherEvent", 0, refresh, <<>>)
    /\ UNCHANGED <<songs, current_song_id, has_selection, selection_enabled,
                   selected_songs, selection_mode, model_alive, panicked>>
    /\ UNCHANGED podcasts_vars

\* on_event, any other event: reset_list when should_refresh_songs(event),
\* which is asked for these events only; refresh is its answer.
OtherEvent(refresh) ==
    /\ Running
    /\ list_model' = IF refresh THEN reset_list_store ELSE list_model
    /\ rows' = IF refresh THEN reset_list_rows(selection_mode) ELSE rows
    /\ Ran("OtherEvent", 0, refresh, <<>>)
    /\ UNCHANGED <<songs, current_song_id, has_selection, selection_enabled,
                   selected_songs, selection_mode, model_alive, panicked>>
    /\ UNCHANGED podcasts_vars

\* The row_activated handler for the row at index i (1-based here).
RowActivated(i) ==
    /\ ~panicked
    /\ i \in 1..Len(rows)
    /\ IF model_alive
       THEN LET call == row_activated_call(rows[i], list_model[i].id)
            IN  /\ rows' = [rows EXCEPT ![i] = row_activated_row(selection_mode, rows[i])]
                /\ selected_songs' = row_activated_selection(call)
                /\ Ran("RowActivated", i, FALSE, <<call>>)
       ELSE /\ UNCHANGED <<rows, selected_songs>>
            /\ Ran("RowActivated", i, FALSE, <<>>)
    /\ UNCHANGED <<songs, current_song_id, has_selection, selection_enabled,
                   list_model, selection_mode, model_alive, panicked>>
    /\ UNCHANGED podcasts_vars

\* The collaborator changes what songs() returns: a song is added at the end or
\* the last one is removed (any list is a few such steps away).
SongsChanged(s) ==
    /\ Running
    /\ \/ \E id \in Ids : s = Append(songs, id)
       \/ songs # <<>> /\ s = SubSeq(songs, 1, Len(songs) - 1)
    /\ songs' = s
    /\ Ran("Model", 0, FALSE, <<>>)
    /\ UNCHANGED <<current_song_id, has_selection, selection_enabled, selected_songs,
                   list_model, rows, selection_mode, model_alive, panicked>>
    /\ UNCHANGED podcasts_vars

\* The collaborator changes what current_song_id() returns.
CurrentSongChanged(c) ==
    /\ Running
    /\ c # current_song_id
    /\ current_song_id' = c
    /\ Ran("Model", 0, FALSE, <<>>)
    /\ UNCHANGED <<songs, has_selection, selection_enabled, selected_songs,
                   list_model, rows, selection_mode, model_alive, panicked>>
    /\ UNCHANGED podcasts_vars

\* The selection state changes outside the component (another view selects
\* or deselects the song id).
SelectionChanged(id) ==
    /\ Running
    /\ has_selection
    /\ selected_songs' = IF id \in selected_songs
                         THEN selected_songs \ {id} ELSE selected_songs \cup {id}
    /\ Ran("Model", 0, FALSE, <<>>)
    /\ UNCHANGED <<songs, current_song_id, has_selection, selection_enabled,
                   list_model, rows, selection_mode, model_alive, panicked>>
    /\ UNCHANGED podcasts_vars

\* The component and the last owner of its model are dropped; the list box
\* and its handlers stay.
ModelDropped ==
    /\ Running
    /\ model_alive' = FALSE
    /\ Ran("Dropped", 0, FALSE, <<>>)
    /\ UNCHANGED <<songs, current_song_id, has_selection, selection_enabled, selected_songs,
                   list_model, rows, selection_mode, panicked>>
    /\ UNCHANGED podcasts_vars

\* After the drop another holder of the gio store (the list box keeps it)
\* appends an item; the bind closure makes its row.
StoreAppended(item) ==
    /\ ~model_alive
    /\ ~panicked
    /\ Len(list_model) < MaxLen
    /\ list_model' = Append(list_model, bind_item(item))
    /\ rows' = Append(rows, bind_row(selection_mode, item))
    /\ Ran("Bound", Len(list_model) + 1, FALSE, <<>>)
    /\ UNCHANGED <<songs, current_song_id, has_selection, selection_enabled, selected_songs,
                   selection_mode, model_alive, panicked>>
    /\ UNCHANGED podcasts_vars

(***************************************************************************)
(* Podcasts: the edge-reached and album-pressed handlers                   *)
(***************************************************************************)

Positions == {"Left", "Right", "Top", "Bottom"}
Results == {"Ok", "Err"}

\* Variant: the trigger stops asking once a load has failed.
edge_reached_loads_until_error(pos) ==
    pos = "Bottom" /\ podcasts_alive /\ last_result # "Err"

\* if let (gtk::PositionType::Bottom, Some(model)) = (pos, weak_model.upgrade())
edge_reached_loads(pos) == pos = "Bottom" /\ podcasts_alive

\* let _ = model.load_more_playlists(): the Result is discarded.
edge_reached_error(result) == FALSE

EdgeReached(pos, result) ==
    /\ edge_signals < MaxSignals
    /\ edge_signals' = edge_signals + 1
    /\ last_edge' = pos
    /\ bottom_signals' = IF pos = "Bottom" /\ podcasts_alive
                         THEN bottom_signals + 1 ELSE bottom_signals
    /\ IF edge_reached_loads(pos)
       THEN /\ load_calls' = load_calls + 1
            /\ last_result' = result
            /\ load_errors' = IF result = "Err" THEN load_errors + 1 ELSE load_errors
            /\ trigger_error' = (trigger_error \/ edge_reached_error(result))
       ELSE /\ last_result' = "none"
            /\ UNCHANGED <<load_calls, load_errors, trigger_error>>
    /\ UNCHANGED <<podcasts_alive, open_calls, last_press>>
    /\ UNCHANGED playlist_vars

\* Variant: the press handler opens the playlist whenever the album has a uri.
album_pressed_opens_without_model(has_uri) == has_uri

\* if let (Some(model), Some(id)) = (model.upgrade(), a.uri())
album_pressed_opens(has_uri) == podcasts_alive /\ has_uri

\* The connect_album_pressed handler of a child create_album_for built, for an
\* album that has a uri or has none.
AlbumPressed(has_uri) ==
    /\ open_calls < MaxSignals
    /\ IF album_pressed_opens(has_uri)
       THEN /\ open_calls' = open_calls + 1
            /\ last_press' = "opened"
       ELSE /\ UNCHANGED open_calls
            /\ last_press' = IF has_uri THEN "no model" ELSE "no uri"
    /\ UNCHANGED <<podcasts_alive, load_calls, bottom_signals, edge_signals, last_edge,
                   last_result, load_errors, trigger_error>>
    /\ UNCHANGED playlist_vars

PodcastsDropped ==
    /\ podcasts_alive
    /\ podcasts_alive' = FALSE
    /\ UNCHANGED <<load_calls, bottom_signals, edge_signals, last_edge, last_result,
                   load_errors, trigger_error, open_calls, last_press>>
    /\ UNCHANGED playlist_vars

(***************************************************************************)
(* Specifications                                                          *)
(***************************************************************************)

\* Playlist::new: an empty store, a list box in Multiple mode.
PlaylistInit ==
    /\ songs \in SongSeqs
    /\ current_song_id \in {{}} \cup {{id} : id \in Ids}
    /\ has_selection \in BOOLEAN
    /\ selection_enabled \in (IF has_selection THEN BOOLEAN ELSE {FALSE})
    /\ selected_songs \in (IF has_selection THEN SUBSET Ids ELSE {{}})
    /\ list_model = <<>>
    /\ rows = <<>>
    /\ selection_mode = "Multiple"
    /\ model_alive = TRUE
    /\ panicked = FALSE
    /\ last_op = [kind |-> "new", index |-> 0, refresh |-> FALSE]
    /\ calls = <<>>

\* Podcasts::new
PodcastsInit ==
    /\ podcasts_alive = TRUE
    /\ load_calls = 0
    /\ bottom_signals = 0
    /\ edge_signals = 0
    /\ last_edge = "none"
    /\ last_result = "none"
    /\ load_errors = 0
    /\ trigger_error = FALSE
    /\ open_calls = 0
    /\ last_press = "none"

Init == PlaylistInit /\ PodcastsInit

Next ==
    \/ TrackChanged
    \/ PlaybackStopped
    \/ \E active \in BOOLEAN : SelectionModeChanged(active)
    \/ \E refresh \in BOOLEAN : OtherEvent(refresh)
    \/ \E i \in 1..MaxLen : RowActivated(i)
    \/ \E s \in SongSeqs : SongsChanged(s)
    \/ \E c \in {{}} \cup {{id} : id \in Ids} : CurrentSongChanged(c)
    \/ \E id \in Ids : SelectionChanged(id)

\* The component while it lives.
Spec == Init /\ [][Next]_vars

\* The component beside a selection state that changes only through the
\* select_song and deselect_song calls of the activation handler.
EngineNext ==
    \/ TrackChanged
    \/ PlaybackStopped
    \/ \E active \in BOOLEAN : SelectionModeChanged(active)
    \/ \E refresh \in BOOLEAN : OtherEvent(refresh)
    \/ \E i \in 1..MaxLen : RowActivated(i)
    \/ \E s \in SongSeqs : SongsChanged(s)
    \/ \E c \in {{}} \cup {{id} : id \in Ids} : CurrentSongChanged(c)

EngineSpec == Init /\ [][EngineNext]_vars

\* The component, its drop, and the handlers that outlive it.
LifetimeNext ==
    \/ Next
    \/ ModelDropped

LifetimeSpec == Init /\ [][LifetimeNext]_vars

\* Both components, the drop of each model, and the callbacks that outlive
\* them.  What the playlist's model reports stays as it was at construction,
\* and the Podcasts callbacks are followed from the drop of its model on
\* (PodcastsSpec follows them before it).
GoneNext ==
    \/ PlaybackStopped
    \/ \E active \in BOOLEAN : SelectionModeChanged(active)
    \/ \E i \in 1..MaxLen : RowActivated(i)
    \/ ModelDropped
    \/ \E id \in Ids, playing \in BOOLEAN : StoreAppended([id |-> id, playing |-> playing])
    \/ PodcastsDropped
    \/ /\ ~podcasts_alive
       /\ \/ \E pos \in Positions, result \in Results : EdgeReached(pos, result)
          \/ \E has_uri \in BOOLEAN : AlbumPressed(has_uri)

GoneSpec == Init /\ [][GoneNext]_vars

\* The Podcasts trigger on its own, beside a freshly built, idle playlist.
PodcastsOnlyInit ==
    /\ PlaylistInit
    /\ songs = <<>>
    /\ current_song_id = {}
    /\ ~has_selection
    /\ PodcastsInit

PodcastsNext ==
    \/ \E pos \in Positions, result \in Results : EdgeReached(pos, result)
    \/ \E has_uri \in BOOLEAN : AlbumPressed(has_uri)
    \/ PodcastsDropped

PodcastsSpec == PodcastsOnlyInit /\ [][PodcastsNext]_vars

(***************************************************************************)
(* Properties                                                              *)
(***************************************************************************)

\* A full reset: PlaybackStopped, or an event should_refresh_songs accepts.
IsFullReset(op) ==
    op.kind = "PlaybackStopped" \/ (op.kind = "OtherEvent" /\ op.refresh)

\* The identifiers a store holds, in order.
StoreIds(store) == [i \in 1..Len(store) |-> store[i].id]

select_call(id) == [op |-> "select_song", id |-> id]
deselect_call(id) == [op |-> "deselect_song", id |-> id]
play_call(id) == [op |-> "play_song", id |-> id]

\* C1: while selection mode is enabled, activating a row that is not selected
\* issues exactly select_song(id) and leaves the row selected; activating a
\* selected row issues exactly deselect_song(id) and leaves it unselected;
\* play_song is not issued.  As this holds of every activation, repeated
\* activations of a row alternate between the two.
C1_MultiSelectToggles ==
    [][\A i \in 1..Len(rows) :
        (last_op'.kind = "RowActivated" /\ last_op'.index = i /\ is_selection_enabled)
        => /\ ~rows[i].selected =>
                /\ calls' = <<select_call(list_model[i].id)>>
                /\ rows'[i].selected
           /\ rows[i].selected =>
                /\ calls' = <<deselect_call(list_model[i].id)>>
                /\ ~rows'[i].selected]_vars

\* A row has just been deselected by an activation in selection mode.
C1_Witness ==
    /\ last_op.kind = "RowActivated"
    /\ is_selection_enabled
    /\ calls = <<deselect_call(list_model[last_op.index].id)>>
    /\ ~rows[last_op.index].selected

\* C2: while selection mode is not enabled, activating the row at an
\* in-bounds index issues exactly play_song(id of the store element at that
\* index) and changes no row and no selection.
C2_DirectActivationPlays ==
    [][\A i \in 1..Len(rows) :
        (last_op'.kind = "RowActivated" /\ last_op'.index = i /\ ~is_selection_enabled)
        => /\ calls' = <<play_call(list_model[i].id)>>
           /\ rows' = rows
           /\ selected_songs' = selected_songs]_vars

\* The second row of a two-song store has just been played.
C2_Witness ==
    /\ last_op.kind = "RowActivated"
    /\ last_op.index = 2
    /\ ~is_selection_enabled
    /\ calls = <<play_call(list_model[2].id)>>

\* C3 as stated: after a full reset a row is selected exactly when the
\* selection state reports its item selected, whatever mode events came before.
C3_ResetRestoresSelection ==
    IsFullReset(last_op) =>
        \A i \in 1..Len(rows) :
            rows[i].selected <=> is_song_selected(list_model[i].id)

\* C3 amended: after a full reset a row is selected exactly when the
\* selection state reports its item selected and the list box's selection
\* mode is Multiple; in mode None the reset leaves every row unselected.
C3_ResetRestoresSelectionInMultiple ==
    IsFullReset(last_op) =>
        /\ Len(rows) = Len(list_model)
        /\ \A i \in 1..Len(rows) :
            rows[i].selected <=>
                (is_song_selected(list_model[i].id) /\ selection_mode = "Multiple")

\* A full reset has restored a selected row beside an unselected one.
C3_Witness ==
    /\ IsFullReset(last_op)
    /\ selection_mode = "Multiple"
    /\ \E i, j \in 1..Len(rows) :
        /\ rows[i].selected /\ is_song_selected(list_model[i].id)
        /\ ~rows[j].selected /\ ~is_song_selected(list_model[j].id)

\* C4: SelectionModeChanged(false) leaves no row selected, every row that was
\* selected non-selectable, and the list box in mode None, whatever the
\* selection state reports.
C4_DisableClearsSelection ==
    [][last_op'.kind = "SelectionModeChanged(false)"
        => /\ Len(rows') = Len(rows)
           /\ \A i \in 1..Len(rows) :
                /\ ~rows'[i].selected
                /\ rows[i].selected => ~rows'[i].selectable
           /\ selection_mode' = "None"]_vars

\* Selection mode has just been disabled while the selection state still
\* reports the item of a (now unselected, non-selectable) row as selected.
C4_Witness ==
    /\ last_op.kind = "SelectionModeChanged(false)"
    /\ selection_mode = "None"
    /\ \E i \in 1..Len(rows) :
        /\ is_song_selected(list_model[i].id)
        /\ ~rows[i].selected
        /\ ~rows[i].selectable

\* C5 as stated: after TrackChanged every store element's playing flag says
\* whether the element's own id is the model's current id, and the store's
\* ids are the same sequence as before, whatever songs() returns.
C5_TargetedRefreshCorrect ==
    [][last_op'.kind = "TrackChanged"
        => /\ \A i \in 1..Len(list_model') :
                list_model'[i].playing = is_current(list_model'[i].id)
           /\ StoreIds(list_model') = StoreIds(list_model)]_vars

\* C6: after a full reset the store holds exactly the songs songs() returned,
\* in order.
C6_ResetEqualsModel ==
    IsFullReset(last_op) => StoreIds(list_model) = songs

\* A full reset has loaded two different songs.
C6_Witness ==
    /\ IsFullReset(last_op)
    /\ Len(list_model) >= 2
    /\ list_model[1].id # list_model[2].id

\* C7: a step that is not a full reset leaves the store's sequence of ids as
\* it was.
C7_OrderPreserved ==
    [][~IsFullReset(last_op') => StoreIds(list_model') = StoreIds(list_model)]_vars

\* A targeted refresh has run on a store that differs from songs().
C7_Witness ==
    /\ last_op.kind = "TrackChanged"
    /\ list_model # <<>>
    /\ StoreIds(list_model) # songs

\* C8: an event of the fallback arm that should_refresh_songs rejects changes
\* neither the store, nor a flag, nor a row, nor the mode, and issues no command.
C8_UnknownEventNoOp ==
    [][(last_op'.kind = "OtherEvent" /\ ~last_op'.refresh)
        => /\ UNCHANGED <<list_model, rows, selection_mode>>
           /\ UNCHANGED <<songs, current_song_id, selection_enabled, selected_songs>>
           /\ calls' = <<>>]_vars

\* An ignored event has been processed while a reset would have changed the store.
C8_Witness ==
    /\ last_op.kind = "OtherEvent"
    /\ ~last_op.refresh
    /\ list_model # <<>>
    /\ StoreIds(list_model) # songs

\* C9: the store a targeted refresh leaves is left as it is by a second
\* targeted refresh.
C9_RefreshIdempotent ==
    (last_op.kind = "TrackChanged" /\ ~panicked)
        => update_list_store(list_model) = list_model

\* A targeted refresh has marked one element active and another not.
C9_Witness ==
    /\ last_op.kind = "TrackChanged"
    /\ ~panicked
    /\ \E i, j \in 1..Len(list_model) :
        list_model[i].playing /\ ~list_model[j].playing

\* C10: load_more_playlists has been called once for every Bottom signal
\* delivered while the model was alive and for no other signal, whatever the
\* calls returned, and no error has left the handler.
C10_PaginationTrigger ==
    /\ load_calls = bottom_signals
    /\ ~trigger_error

\* A load succeeded after an earlier one failed, and a non-Bottom signal came.
C10_Witness ==
    /\ load_errors >= 1
    /\ last_result = "Ok"
    /\ load_calls >= 2
    /\ podcasts_alive
    /\ edge_signals > bottom_signals

\* The last step was an activation that the handler took as Multi-Select
\* (a select or a deselect command), resp. as Direct-Activation (play).
TakenAsMultiSelect(issued) ==
    Len(issued) = 1 /\ issued[1].op \in {"select_song", "deselect_song"}
TakenAsDirect(issued) ==
    Len(issued) = 1 /\ issued[1].op = "play_song"

\* C11 as stated, for the activation that directly follows a mode event: it
\* is Multi-Select when that event carried true and Direct-Activation when
\* it carried false.
C11_ModeFollowsLatestEvent ==
    [][last_op'.kind = "RowActivated"
        => /\ last_op.kind = "SelectionModeChanged(true)" => TakenAsMultiSelect(calls')
           /\ last_op.kind = "SelectionModeChanged(false)" => TakenAsDirect(calls')]_vars

\* C11 amended: every activation is interpreted from what the model's
\* selection state answers at that moment: Multi-Select exactly when
\* selection() is present and reports selection enabled, Direct-Activation
\* otherwise (always, for a model without selection()).  For a model with
\* selection() the flag is the value of the latest SelectionModeChanged event
\* and nothing else changes it, so every activation while the list box is in
\* mode None (after a disable, before the next enable) is Direct-Activation.
C11_ModeReadFromSelectionState ==
    [][/\ last_op'.kind = "RowActivated"
            => /\ is_selection_enabled => TakenAsMultiSelect(calls')
               /\ ~is_selection_enabled => TakenAsDirect(calls')
               /\ selection_mode = "None" => TakenAsDirect(calls')
       /\ (last_op'.kind = "SelectionModeChanged(true)" /\ has_selection)
            => is_selection_enabled'
       /\ last_op'.kind = "SelectionModeChanged(false)" => ~is_selection_enabled'
       /\ last_op'.kind \notin {"SelectionModeChanged(true)", "SelectionModeChanged(false)"}
            => is_selection_enabled' = is_selection_enabled]_vars

\* An activation after a disable has been played although the list box was
\* built in Multiple mode and the model has a selection state.
C11_Witness ==
    /\ last_op.kind = "RowActivated"
    /\ has_selection
    /\ selection_mode = "None"
    /\ TakenAsDirect(calls)

\* Selection mode is off: the last mode event was SelectionModeChanged(false)
\* (only that event puts the list box in mode None, and only
\* SelectionModeChanged(true) takes it out), and no row is selected.
OffAndUnselected ==
    /\ selection_mode = "None"
    /\ \A i \in 1..Len(rows) : ~rows[i].selected

\* C12: processing SelectionModeChanged(false) leaves selection mode off with
\* no row selected, and every later step other than SelectionModeChanged(true)
\* (a full reset, a targeted refresh, an ignored event, an activation, a
\* change of the model or of the selection state) keeps it so.
C12_NoSelectionWhileOff ==
    [][/\ last_op'.kind = "SelectionModeChanged(false)" => OffAndUnselected'
       /\ (OffAndUnselected /\ last_op'.kind # "SelectionModeChanged(true)")
            => OffAndUnselected']_vars

\* While selection mode is off, a full reset has bound a row whose item the
\* selection state reports selected, and the row is not selected.
C12_Witness ==
    /\ IsFullReset(last_op)
    /\ selection_mode = "None"
    /\ \E i \in 1..Len(rows) :
        is_song_selected(list_model[i].id) /\ ~rows[i].selected

\* C13: each event runs the one strategy of its match arm.  TrackChanged only
\* refreshes flags: no element, row or mode changes.  PlaybackStopped only
\* resets: the store becomes songs(), the mode stays.  SelectionModeChanged
\* only changes the mode and the rows' selection: the store stays.  The
\* first three arms never ask should_refresh_songs; any other event
\* resets exactly when should_refresh_songs accepts it and otherwise
\* changes nothing.
C13_OneStrategyPerEvent ==
    [][/\ last_op'.kind = "TrackChanged"
            => /\ StoreIds(list_model') = StoreIds(list_model)
               /\ UNCHANGED <<rows, selection_mode>>
       /\ last_op'.kind = "PlaybackStopped"
            => /\ StoreIds(list_model') = songs
               /\ Len(rows') = Len(songs)
               /\ UNCHANGED selection_mode
       /\ last_op'.kind \in {"SelectionModeChanged(true)", "SelectionModeChanged(false)"}
            => /\ UNCHANGED list_model
               /\ selection_mode' = (IF last_op'.kind = "SelectionModeChanged(true)"
                                     THEN "Multiple" ELSE "None")
       /\ (last_op'.kind = "OtherEvent" /\ last_op'.refresh)
            => /\ StoreIds(list_model') = songs
               /\ Len(rows') = Len(songs)
               /\ UNCHANGED selection_mode
       /\ (last_op'.kind = "OtherEvent" /\ ~last_op'.refresh)
            => UNCHANGED <<list_model, rows, selection_mode>>]_vars

\* An event the model opted in has reset a list box that is in mode None:
\* the store is songs() and the mode is untouched.
C13_Witness ==
    /\ last_op.kind = "OtherEvent"
    /\ last_op.refresh
    /\ list_model # <<>>
    /\ selection_mode = "None"

\* C14: events act one at a time in the order on_event receives them.  A full
\* reset that directly follows a targeted refresh leaves the store equal to
\* songs() as it is at the reset, element by element, each flag computed from
\* the current song at the reset, and one row per song: nothing of what the
\* refresh wrote survives.
C14_ResetAfterRefresh ==
    [][(last_op.kind = "TrackChanged" /\ IsFullReset(last_op'))
        => /\ list_model' = [i \in 1..Len(songs) |->
                                [id |-> songs[i], playing |-> is_current(songs[i])]]
           /\ Len(rows') = Len(songs)]_vars

\* A targeted refresh has flagged an element of a store that is longer than
\* songs(); the list is live, so the next event may be a full reset.
C14_Witness ==
    /\ last_op.kind = "TrackChanged"
    /\ Running
    /\ Len(list_model) > Len(songs)
    /\ \E i \in 1..Len(list_model) : list_model[i].playing

\* C15: callbacks that run after their model is gone do nothing and do not
\* fail (a step that changes the playlist's variables is the playlist
\* operation last_op names).  A row activation issues no command and leaves rows, store, mode and
\* selection state alone; binding a new item gives one fresh row, not
\* reconciled with the selection state, and issues no command; a Bottom edge
\* signal calls load_more_playlists no more and an album press calls
\* open_playlist no more; no handler panics or lets an error out.
C15_ModelGoneNoOp ==
    [][/\ (~model_alive /\ playlist_vars' # playlist_vars /\ last_op'.kind = "RowActivated")
            => /\ calls' = <<>>
               /\ UNCHANGED <<rows, list_model, selected_songs, selection_mode>>
               /\ ~panicked'
       /\ (~model_alive /\ playlist_vars' # playlist_vars /\ last_op'.kind = "Bound")
            => /\ calls' = <<>>
               /\ Len(list_model') = Len(list_model) + 1
               /\ rows' = Append(rows, new_row)
               /\ UNCHANGED <<selected_songs, selection_mode>>
               /\ ~panicked'
       /\ ~podcasts_alive
            => /\ UNCHANGED <<load_calls, open_calls>>
               /\ ~trigger_error']_vars

\* Both models are gone.  A row bound after the drop, for a song the selection
\* state does not report selected, was activated and is still as it was bound;
\* a Bottom signal came and loaded nothing; an album with a uri was pressed
\* and nothing was opened.
C15_Witness ==
    /\ ~model_alive
    /\ last_op.kind = "RowActivated"
    /\ Len(rows) > Len(songs)
    /\ rows[last_op.index] = new_row
    /\ ~is_song_selected(list_model[last_op.index].id)
    /\ calls = <<>>
    /\ ~podcasts_alive
    /\ last_edge = "Bottom"
    /\ last_result = "none"
    /\ last_press = "no model"

C17_IndexInBounds ==
    /\ ~panicked
    /\ last_op.kind = "RowActivated" => last_op.index \in 1..Len(list_model)

\* C18 as stated: an activation never issues select_song for a song the
\* selection state reports selected at that moment, nor deselect_song for one
\* it reports unselected.
C18_CommandsAgreeWithSelection ==
    [][(last_op'.kind = "RowActivated" /\ Len(calls') = 1)
        => /\ calls'[1].op = "select_song" => ~is_song_selected(calls'[1].id)
           /\ calls'[1].op = "deselect_song" => is_song_selected(calls'[1].id)]_vars

\* A sequence of identifiers without repetition.
UniqueIds(ids) == \A i, j \in 1..Len(ids) : ids[i] = ids[j] => i = j

\* C19 as stated: right after a TrackChanged or a full reset, with songs() and
\* the store free of repeated ids, at most one store element is flagged
\* playing, and its id is the model's current song id.
C19_AtMostOneActive ==
    (/\ last_op.kind = "TrackChanged" \/ IsFullReset(last_op)
     /\ UniqueIds(songs)
     /\ UniqueIds(StoreIds(list_model)))
        => /\ \A i, j \in 1..Len(list_model) :
                (list_model[i].playing /\ list_model[j].playing) => i = j
           /\ \A i \in 1..Len(list_model) :
                list_model[i].playing => is_current(list_model[i].id)

====
